---- MODULE Spec2Model ----
(***************************************************************************)
(* A model of build/darwin/create-dmg.ts (src/unnamed/part_000): the       *)
(* directory-size measurement, the capacity computation and the createDMG  *)
(* pipeline with its two try/finally blocks, driven by the CLI entry point.*)
(*                                                                         *)
(* Strings are sequences of one-character strings, so that                 *)
(* String.prototype.replace, path.dirname and the mount-point regular      *)
(* expression are computed, not assumed.  The external tool (hdiutil, ln)  *)
(* and the fs calls that can throw are the environment: each invocation    *)
(* nondeterministically succeeds or fails.                                 *)
(***************************************************************************)
EXTENDS Integers, Sequences, FiniteSets, TLC

\* ------------------------------------------------------------------ bounds

\* how many times the CLI is invoked in sequence in one behaviour
MaxRuns == 2
\* nodes of an enumerated source bundle (SizeSpec)
MaxNodes == 3
\* entries listed by one directory of an enumerated source bundle (SizeSpec)
MaxEntries == 2

\* ----------------------------------------------------------------- strings

\* s has p as a substring starting at index i
MatchesAt(s, p, i) ==
    /\ i >= 1
    /\ i + Len(p) - 1 <= Len(s)
    /\ \A k \in 1..Len(p) : s[i + k - 1] = p[k]

\* String.prototype.indexOf, 1-based; 0 when p does not occur in s
IndexOf(s, p) ==
    LET hits == {i \in 1..Len(s) : MatchesAt(s, p, i)}
    IN  IF hits = {} THEN 0 ELSE CHOOSE i \in hits : \A j \in hits : i <= j

\* String.prototype.replace(p, r) with a string pattern: the first occurrence
\* of p is replaced, and s is returned unchanged when p does not occur
Replace(s, p, r) ==
    LET i == IndexOf(s, p)
    IN  IF i = 0 THEN s
        ELSE SubSeq(s, 1, i - 1) \o r \o SubSeq(s, i + Len(p), Len(s))

Slash == <<"/">>
Dot == <<".">>
DotDmg == <<".", "d", "m", "g">>
TempDotDmg == <<"-", "t", "e", "m", "p", ".", "d", "m", "g">>

\* index of the last "/" of p, 0 when there is none
LastSlash(p) ==
    LET hits == {i \in 1..Len(p) : p[i] = "/"}
    IN  IF hits = {} THEN 0 ELSE CHOOSE i \in hits : \A j \in hits : i >= j

\* path.dirname (posix) of a path without trailing slashes
Dirname(p) ==
    LET i == LastSlash(p)
    IN  IF i = 0 THEN Dot
        ELSE IF i = 1 THEN Slash
        ELSE SubSeq(p, 1, i - 1)

\* a directory and all its ancestors (what mkdirSync {recursive: true} makes)
RECURSIVE Ancestors(_)
Ancestors(d) ==
    IF d = Dot \/ d = Slash THEN {d} ELSE {d} \cup Ancestors(Dirname(d))

\* the staging image written at the output path itself
TempDmgPathSame(out) == out

\* line 40: const tempDmgPath = outputPath.replace('.dmg', '-temp.dmg')
TempDmgPath(out) == Replace(out, DotDmg, TempDotDmg)

\* line 56: const outputDir = path.dirname(outputPath)
OutputDir(out) == Dirname(out)

\* ------------------------------------------------------ the source bundle

(* A bundle is a table of filesystem nodes, node 1 being the bundle's root  *)
(* directory.  A node is [isDir, size, entries]: isDir and size are what    *)
(* fs.statSync reports for a path that resolves to the node (statSync       *)
(* follows symbolic links), entries is what fs.readdirSync lists for a      *)
(* directory, in listing order, each entry given by the node its path       *)
(* resolves to.  A node listed by more than one entry is a file or          *)
(* directory with several names in the bundle: a symbolic link to it beside *)
(* its own name (Versions/Current in a framework), or a hard link.  Entries *)
(* only name nodes with a larger number, so no bundle has a cycle.          *)
File(n) == [isDir |-> FALSE, size |-> n, entries |-> <<>>]
Dir(e) == [isDir |-> TRUE, size |-> 96, entries |-> e]

MB == 1024 * 1024

\* lines 16-32, the loop of lines 20-29 from entry i on with the running total
RECURSIVE getDirectorySize(_, _), SumEntries(_, _, _, _)
SumEntries(b, listing, i, totalSize) ==
    IF i > Len(listing) THEN totalSize
    ELSE LET stats == b[listing[i]]
         IN  SumEntries(b, listing, i + 1,
                 totalSize + (IF stats.isDir
                              THEN getDirectorySize(b, listing[i])
                              ELSE stats.size))

getDirectorySize(b, dirPath) == SumEntries(b, b[dirPath].entries, 1, 0)

\* Math.ceil(a / b) for integers a >= 0, b a power of two: the double
\* division is exact below 2^53, so the ceiling is the integer ceiling
CeilDiv(a, b) == IF a % b = 0 THEN a \div b ELSE (a \div b) + 1

\* the buffer of line 50
Margin == 50

\* Math.floor in the place of Math.ceil
RequiredSizeFloor(size) == (size \div MB) + Margin

\* line 50: const requiredSizeMB = Math.ceil(appSize / (1024 * 1024)) + 50
RequiredSizeMB(size) == CeilDiv(size, MB) + Margin

\* the source paths the CLI is given; the last one does not exist
AppPaths == {"A.app", "B.app", "missing.app"}

\* the bundles on disk: an 800 MB bundle, and a small one in which one file
\* has two names
Bundles ==
    [p \in {"A.app", "B.app"} |->
        IF p = "A.app"
        THEN <<Dir(<<2, 3>>), File(400 * MB), File(400 * MB)>>
        ELSE <<Dir(<<2, 3>>), Dir(<<3>>), File(1)>>]

\* line 44: fs.existsSync(appPath)
SourceExists(p) == p \in DOMAIN Bundles

\* ------------------------------------------------- the attach output

Volumes == <<"/", "V", "o", "l", "u", "m", "e", "s", "/">>
Whitespace == {" ", "\t", "\n", "\r"}

\* what hdiutil attach may print: a device line with the mount path, the
\* same with a trailing blank, a device line without a mount path, and a
\* mount path cut off at its slash
AttachOutputs ==
    { <<"/", "d", "\t">> \o Volumes \o <<"V", "\n">>,
      <<"/", "d", "\t">> \o Volumes \o <<"V", " ", "\n">>,
      <<"/", "d", "\n">>,
      Volumes \o <<"\n">> }

\* line 82: mountOutput.match(/\/Volumes\/[^\n]+/): <<>> stands for null
\* (a match is never empty), else the leftmost match, taken greedily
MountMatch(out) ==
    LET starts == {i \in 1..Len(out) :
                     /\ MatchesAt(out, Volumes, i)
                     /\ i + Len(Volumes) <= Len(out)
                     /\ out[i + Len(Volumes)] # "\n"}
    IN  IF starts = {} THEN <<>>
        ELSE LET i == CHOOSE i \in starts : \A j \in starts : i <= j
                 ends == {j \in (i + Len(Volumes))..Len(out) :
                            \A k \in (i + Len(Volumes))..j : out[k] # "\n"}
                 j == CHOOSE j \in ends : \A k \in ends : j >= k
             IN  SubSeq(out, i, j)

\* String.prototype.trim
RECURSIVE Trim(_)
Trim(s) ==
    IF s = <<>> THEN s
    ELSE IF Head(s) \in Whitespace THEN Trim(Tail(s))
    ELSE IF s[Len(s)] \in Whitespace THEN Trim(SubSeq(s, 1, Len(s) - 1))
    ELSE s

\* ------------------------------------------------------------------ state

\* the output paths the CLI is given
OutputPaths ==
    { <<"o">> \o DotDmg,
      <<"o", ".", "i", "m", "g">>,
      <<"d", "/", "o">> \o DotDmg,
      <<"d">> \o DotDmg \o <<"/", "o">> \o DotDmg }

VARIABLES
    files,          \* the paths at which a file exists
    dirs,           \* the paths at which a directory exists
    attached,       \* the staging image is attached (a volume is mounted)
    volHasLink,     \* an entry named Applications exists in the volume
    appPath,        \* the command line: argv[2]
    outputPath,     \* the command line: argv[3]
    pc,             \* where the process is
    args,           \* process.argv.slice(2) of the running process
    appSize,        \* line 49
    requiredSizeMB, \* line 50
    createSizeArg,  \* the <n> of "-size <n>m" of the last create invocation
    mountOutput,    \* line 79
    mountPoint,     \* line 86
    pending,        \* the exception propagating while a finally block runs
    result,         \* how the promise of createDMG settled
    err,            \* the error it rejected with
    exitCode,       \* the exit status of the process, -1 while it runs
    usagePrinted,   \* lines 127-130 ran
    trace,          \* the stages of createDMG started in this run, in order
    failed,         \* the stages of this run that threw, in order
    files0,         \* files when this run started
    dirs0,          \* dirs when this run started
    runs,           \* CLI invocations so far
    bundle,         \* SizeSpec: the bundle that is measured
    prevSize,       \* PlanSpec: the size planned for before this one
    prevArg,        \* PlanSpec: the -size argument it got
    procs,          \* ConcSpec: the state of each of two processes
    owner           \* ConcSpec: the process that wrote the file at a path

fsVars == <<files, dirs, attached, volHasLink>>
cmdVars == <<appPath, outputPath>>
planVars == <<appSize, requiredSizeMB, createSizeArg>>
mountVars == <<mountOutput, mountPoint>>
ctlVars == <<pending, result, err, failed>>
cliVars == <<args, exitCode, usagePrinted>>
startVars == <<files0, dirs0, runs>>
concVars == <<procs, owner>>
pureVars == <<bundle, prevSize, prevArg, concVars>>
vars == <<fsVars, cmdVars, pc, planVars, mountVars, ctlVars, cliVars, trace,
          startVars, pureVars>>

tempDmgPath == TempDmgPath(outputPath)
outputDir == OutputDir(outputPath)

NoBundle == <<>>

\* the two processes of ConcSpec
Procs == {1, 2}

\* a process that has not started: where it is, the exception pending in
\* it, how its promise settled and with what error, whether it holds the
\* image attached, whether the final image was at the output path when it
\* ended, whether the other process wrote or removed a file at one of the
\* two paths while it ran, and whether the other process removed a file it
\* had written
NotStarted ==
    [pc |-> "idle", pending |-> "none", result |-> "none", err |-> "none",
     attached |-> FALSE, artifact |-> FALSE, hit |-> FALSE, lost |-> FALSE]

\* no process of ConcSpec exists
NoProcs ==
    /\ procs = [p \in Procs |-> NotStarted]
    /\ owner = [f \in {} |-> 0]

\* between two processes: nothing of a run is left in the run's variables
Blank ==
    /\ args = <<>>
    /\ mountOutput = <<>>
    /\ mountPoint = <<>>
    /\ pending = "none"
    /\ result = "none"
    /\ err = "none"
    /\ exitCode = 0
    /\ usagePrinted = FALSE
    /\ trace = <<>>
    /\ failed = <<>>
    /\ runs = 0

\* No process has run yet.  The command line is fixed for the behaviour (the
\* same command is what gets re-run); earlier builds may have left a file at
\* the staging path or at the output path, in directories that then exist.
Init ==
    /\ Blank
    /\ appPath \in AppPaths
    /\ outputPath \in OutputPaths
    /\ files \in SUBSET {tempDmgPath, outputPath}
    /\ \E made \in SUBSET {outputDir} :
          dirs = {Dot} \cup UNION {Ancestors(d) : d \in made}
                       \cup UNION {Ancestors(Dirname(f)) : f \in files}
    /\ attached = FALSE
    /\ volHasLink = FALSE
    /\ pc = "idle"
    /\ appSize = 0
    /\ requiredSizeMB = 0
    /\ createSizeArg = 0
    /\ files0 = files
    /\ dirs0 = dirs
    /\ bundle = NoBundle
    /\ prevSize = -1
    /\ prevArg = 0
    /\ NoProcs

\* -------------------------------------------------------- control flow

\* a stage completes normally
Goto(next) ==
    /\ pc' = next
    /\ UNCHANGED ctlVars

\* lines 43-67 moved inside the try of line 69
ThrowBeforeTryIntoFinally(e) ==
    /\ pc' = "cleanup"
    /\ pending' = e
    /\ failed' = Append(failed, e)
    /\ UNCHANGED <<result, err>>

\* an exception thrown in lines 37-67, before the try of line 69: the
\* promise of createDMG rejects with it
ThrowBeforeTry(e) ==
    /\ pc' = "done"
    /\ pending' = "none"
    /\ result' = "rejected"
    /\ err' = e
    /\ failed' = Append(failed, e)

\* the try of line 69 without its finally
ThrowOuterNoFinally(e) == ThrowBeforeTry(e)

\* an exception thrown in the try of lines 69-113, outside the inner try:
\* the finally of line 114 runs with it pending
ThrowOuter(e) ==
    /\ pc' = "cleanup"
    /\ pending' = e
    /\ failed' = Append(failed, e)
    /\ UNCHANGED <<result, err>>

\* the inner try of line 89 without its finally
ThrowInnerNoFinally(e) == ThrowOuter(e)

\* an exception thrown in the inner try of lines 89-95: the finally of
\* line 96 runs with it pending
ThrowInner(e) ==
    /\ pc' = "detach"
    /\ pending' = e
    /\ failed' = Append(failed, e)
    /\ UNCHANGED <<result, err>>

\* the end of the finally of line 96 with an exception still pending: it
\* propagates out of the outer try
RethrowOuter ==
    /\ pc' = "cleanup"
    /\ UNCHANGED ctlVars

\* the end of the finally of lines 114-119: the pending exception, if any,
\* rejects the promise; else createDMG returns
Settle ==
    /\ pc' = "done"
    /\ pending' = "none"
    /\ result' = IF pending = "none" THEN "resolved" ELSE "rejected"
    /\ err' = pending
    /\ UNCHANGED failed

\* ------------------------------------------------------------ the CLI

\* the argument count is not checked: createDMG is called with what is there
CliStartNoUsage(argc) ==
    /\ pc \in {"idle", "exited"}
    /\ runs < MaxRuns
    /\ runs' = runs + 1
    /\ args' = SubSeq(<<appPath, outputPath>>, 1, argc)
    /\ files0' = files
    /\ dirs0' = dirs
    /\ trace' = <<>>
    /\ failed' = <<>>
    /\ pending' = "none"
    /\ result' = "none"
    /\ err' = "none"
    /\ appSize' = 0
    /\ requiredSizeMB' = 0
    /\ createSizeArg' = 0
    /\ mountOutput' = <<>>
    /\ mountPoint' = <<>>
    /\ usagePrinted' = FALSE
    /\ exitCode' = -1
    /\ pc' = "validate"
    /\ UNCHANGED <<fsVars, cmdVars, pureVars>>

\* lines 123-136: the process starts with one or two arguments
CliStart(argc) ==
    /\ pc \in {"idle", "exited"}
    /\ runs < MaxRuns
    /\ runs' = runs + 1
    /\ args' = SubSeq(<<appPath, outputPath>>, 1, argc)
    /\ files0' = files
    /\ dirs0' = dirs
    /\ trace' = <<>>
    /\ failed' = <<>>
    /\ pending' = "none"
    /\ result' = "none"
    /\ err' = "none"
    /\ appSize' = 0
    /\ requiredSizeMB' = 0
    /\ createSizeArg' = 0
    /\ mountOutput' = <<>>
    /\ mountPoint' = <<>>
    /\ IF Len(args') < 2
       THEN /\ usagePrinted' = TRUE
            /\ exitCode' = 1
            /\ pc' = "exited"
       ELSE /\ usagePrinted' = FALSE
            /\ exitCode' = -1
            /\ pc' = "validate"
    /\ UNCHANGED <<fsVars, cmdVars, pureVars>>

\* the process exits with status 0 although createDMG rejected
CliExitAlwaysZero ==
    /\ pc = "done"
    /\ pc' = "exited"
    /\ exitCode' = 0
    /\ UNCHANGED <<fsVars, cmdVars, planVars, mountVars, ctlVars, args,
                   usagePrinted, trace, startVars, pureVars>>

\* lines 136-139: a rejection is logged and the process exits with status 1;
\* else the process ends with status 0
CliExit ==
    /\ pc = "done"
    /\ pc' = "exited"
    /\ exitCode' = IF result = "rejected" THEN 1 ELSE 0
    /\ UNCHANGED <<fsVars, cmdVars, planVars, mountVars, ctlVars, args,
                   usagePrinted, trace, startVars, pureVars>>

\* ------------------------------------------------------------ createDMG

\* what a stage leaves alone besides the filesystem and the control state
Frame == UNCHANGED <<cmdVars, cliVars, startVars, pureVars>>

\* the validation left out
ValidateNoCheck ==
    /\ pc = "validate"
    /\ Goto("measure")
    /\ UNCHANGED <<fsVars, planVars, mountVars, trace>>
    /\ Frame

\* lines 43-46
Validate ==
    /\ pc = "validate"
    /\ IF ~SourceExists(args[1])
       THEN ThrowBeforeTry("notfound")
       ELSE Goto("measure")
    /\ UNCHANGED <<fsVars, planVars, mountVars, trace>>
    /\ Frame

\* lines 48-50: the size is measured and the capacity derived from it, or
\* readdirSync or statSync throws (an entry vanished or is unreadable)
Measure ==
    /\ pc = "measure"
    /\ \/ /\ SourceExists(args[1])
          /\ appSize' = getDirectorySize(Bundles[args[1]], 1)
          /\ requiredSizeMB' = RequiredSizeMB(appSize')
          /\ Goto("mkdir")
       \/ /\ ThrowBeforeTry("measure")
          /\ UNCHANGED <<appSize, requiredSizeMB>>
    /\ UNCHANGED <<fsVars, createSizeArg, mountVars, trace>>
    /\ Frame

\* lines 55-59
EnsureOutputDir ==
    /\ pc = "mkdir"
    /\ IF outputDir \notin dirs
       THEN /\ trace' = Append(trace, "mkdir")
            /\ \/ /\ dirs' = dirs \cup Ancestors(outputDir)
                  /\ Goto("clearTemp")
               \/ /\ ThrowBeforeTry("mkdir")
                  /\ UNCHANGED dirs
       ELSE /\ Goto("clearTemp")
            /\ UNCHANGED <<dirs, trace>>
    /\ UNCHANGED <<files, attached, volHasLink, planVars, mountVars>>
    /\ Frame

\* an existing staging image left in place
ClearTempSkipped ==
    /\ pc = "clearTemp"
    /\ Goto("clearOut")
    /\ UNCHANGED <<fsVars, planVars, mountVars, trace>>
    /\ Frame

\* lines 62-64
ClearTemp ==
    /\ pc = "clearTemp"
    /\ IF tempDmgPath \in files
       THEN /\ trace' = Append(trace, "unlinkTemp")
            /\ \/ /\ files' = files \ {tempDmgPath}
                  /\ Goto("clearOut")
               \/ /\ ThrowBeforeTry("unlinkTemp")
                  /\ UNCHANGED files
       ELSE /\ Goto("clearOut")
            /\ UNCHANGED <<files, trace>>
    /\ UNCHANGED <<dirs, attached, volHasLink, planVars, mountVars>>
    /\ Frame

\* an existing output file left in place
ClearOutSkipped ==
    /\ pc = "clearOut"
    /\ Goto("create")
    /\ UNCHANGED <<fsVars, planVars, mountVars, trace>>
    /\ Frame

\* lines 65-67
ClearOut ==
    /\ pc = "clearOut"
    /\ IF outputPath \in files
       THEN /\ trace' = Append(trace, "unlinkOut")
            /\ \/ /\ files' = files \ {outputPath}
                  /\ Goto("create")
               \/ /\ ThrowBeforeTry("unlinkOut")
                  /\ UNCHANGED files
       ELSE /\ Goto("create")
            /\ UNCHANGED <<files, trace>>
    /\ UNCHANGED <<dirs, attached, volHasLink, planVars, mountVars>>
    /\ Frame

\* lines 70-75: hdiutil create writes the staging image at tempDmgPath, which
\* it can only do in a directory that exists; when it fails it may leave a
\* partial image behind
Create ==
    /\ pc = "create"
    /\ trace' = Append(trace, "create")
    /\ createSizeArg' = requiredSizeMB
    /\ \/ /\ Dirname(tempDmgPath) \in dirs
          /\ files' = files \cup {tempDmgPath}
          /\ Goto("attach")
       \/ /\ \/ UNCHANGED files
             \/ /\ Dirname(tempDmgPath) \in dirs
                /\ files' = files \cup {tempDmgPath}
          /\ ThrowOuter("create")
    /\ UNCHANGED <<dirs, attached, volHasLink, appSize, requiredSizeMB,
                   mountVars>>
    /\ Frame

\* lines 77-79: hdiutil attach mounts the staging image and prints where;
\* the volume holds what the bundle held, which may include an entry named
\* Applications
Attach ==
    /\ pc = "attach"
    /\ trace' = Append(trace, "attach")
    /\ \/ /\ tempDmgPath \in files
          /\ attached' = TRUE
          /\ volHasLink' \in BOOLEAN
          /\ mountOutput' \in AttachOutputs
          /\ Goto("parse")
       \/ /\ ThrowOuter("attach")
          /\ UNCHANGED <<attached, volHasLink, mountOutput>>
    /\ UNCHANGED <<files, dirs, planVars, mountPoint>>
    /\ Frame

\* the null test of line 83 left out
ParseNoCheck ==
    /\ pc = "parse"
    /\ mountPoint' = Trim(MountMatch(mountOutput))
    /\ Goto("decorate")
    /\ UNCHANGED <<fsVars, planVars, mountOutput, trace>>
    /\ Frame

\* lines 81-87
ParseMountPoint ==
    /\ pc = "parse"
    /\ IF MountMatch(mountOutput) = <<>>
       THEN /\ ThrowOuter("parse")
            /\ UNCHANGED mountPoint
       ELSE /\ mountPoint' = Trim(MountMatch(mountOutput))
            /\ Goto("decorate")
    /\ UNCHANGED <<fsVars, planVars, mountOutput, trace>>
    /\ Frame

\* ln -s run without the existsSync test of line 92
DecorateAlways ==
    /\ pc = "decorate"
    /\ trace' = Append(trace, "ln")
    /\ \/ /\ volHasLink' = TRUE
          /\ Goto("detach")
       \/ /\ ThrowInner("ln")
          /\ UNCHANGED volHasLink
    /\ UNCHANGED <<files, dirs, attached, planVars, mountVars>>
    /\ Frame

\* lines 89-95: ln -s is run only when no entry named Applications exists
Decorate ==
    /\ pc = "decorate"
    /\ IF ~volHasLink
       THEN /\ trace' = Append(trace, "ln")
            /\ \/ /\ volHasLink' = TRUE
                  /\ Goto("detach")
               \/ /\ ThrowInner("ln")
                  /\ UNCHANGED volHasLink
       ELSE /\ Goto("detach")
            /\ UNCHANGED <<volHasLink, trace>>
    /\ UNCHANGED <<files, dirs, attached, planVars, mountVars>>
    /\ Frame

\* a failure of hdiutil detach caught and ignored
DetachSwallowed ==
    /\ pc = "detach"
    /\ trace' = Append(trace, "detach")
    /\ \/ /\ attached' = FALSE
          /\ IF pending = "none" THEN Goto("convert") ELSE RethrowOuter
       \/ /\ UNCHANGED attached
          /\ pc' = IF pending = "none" THEN "convert" ELSE "cleanup"
          /\ failed' = Append(failed, "detach")
          /\ UNCHANGED <<pending, result, err>>
    /\ UNCHANGED <<files, dirs, volHasLink, planVars, mountVars>>
    /\ Frame

\* lines 96-100: the finally of the inner try; an exception of hdiutil
\* detach replaces the pending one
Detach ==
    /\ pc = "detach"
    /\ trace' = Append(trace, "detach")
    /\ \/ /\ attached' = FALSE
          /\ IF pending = "none" THEN Goto("convert") ELSE RethrowOuter
       \/ /\ ThrowOuter("detach")
          /\ UNCHANGED attached
    /\ UNCHANGED <<files, dirs, volHasLink, planVars, mountVars>>
    /\ Frame

\* lines 102-107: hdiutil convert reads the staging image and writes the
\* final image at outputPath; when it fails it may leave a partial file
Convert ==
    /\ pc = "convert"
    /\ trace' = Append(trace, "convert")
    /\ \/ /\ tempDmgPath \in files
          /\ files' = files \cup {outputPath}
          /\ Goto("stat")
       \/ /\ files' \in {files, files \cup {outputPath}}
          /\ ThrowOuter("convert")
    /\ UNCHANGED <<dirs, attached, volHasLink, planVars, mountVars>>
    /\ Frame

\* lines 109-113: statSync throws when nothing is at outputPath, and may
\* throw for a file that is there (the directory is not searchable)
Report ==
    /\ pc = "stat"
    /\ trace' = Append(trace, "stat")
    /\ \/ /\ outputPath \in files
          /\ pc' = "cleanup"
          /\ UNCHANGED ctlVars
       \/ ThrowOuter("stat")
    /\ UNCHANGED <<fsVars, planVars, mountVars>>
    /\ Frame

\* lines 114-119: the finally of the outer try; an exception of unlinkSync
\* replaces the pending one
Cleanup ==
    /\ pc = "cleanup"
    /\ trace' = Append(trace, "cleanup")
    /\ IF tempDmgPath \in files
       THEN \/ /\ files' = files \ {tempDmgPath}
               /\ Settle
            \/ /\ UNCHANGED files
               /\ pc' = "done"
               /\ pending' = "none"
               /\ result' = "rejected"
               /\ err' = "cleanup"
               /\ failed' = Append(failed, "cleanup")
       ELSE /\ UNCHANGED files
            /\ Settle
    /\ UNCHANGED <<dirs, attached, volHasLink, planVars, mountVars>>
    /\ Frame

Next ==
    \/ \E argc \in 1..2 : CliStart(argc)
    \/ Validate
    \/ Measure
    \/ EnsureOutputDir
    \/ ClearTemp
    \/ ClearOut
    \/ Create
    \/ Attach
    \/ ParseMountPoint
    \/ Decorate
    \/ Detach
    \/ Convert
    \/ Report
    \/ Cleanup
    \/ CliExit

Spec == Init /\ [][Next]_vars

\* ----------------------------------------------- measuring, on its own

FileSizes == {0, 1, 4}

SeqsUpTo(S, n) == UNION {[1..k -> S] : k \in 0..n}

\* what node i of an enumerated bundle may be
NodeChoices(i) ==
    {File(n) : n \in FileSizes}
        \cup {Dir(e) : e \in SeqsUpTo((i + 1)..MaxNodes, MaxEntries)}

RECURSIVE BundlesFrom(_)
BundlesFrom(i) ==
    IF i > MaxNodes THEN {<<>>}
    ELSE {<<n>> \o rest : n \in NodeChoices(i), rest \in BundlesFrom(i + 1)}

\* every bundle of at most MaxNodes nodes whose root is a directory
AllBundles == {b \in BundlesFrom(1) : b[1].isDir}

\* the pipeline's variables, at rest
AtRest ==
    /\ Blank
    /\ appPath = "A.app"
    /\ outputPath = <<"o">> \o DotDmg
    /\ files = {}
    /\ dirs = {Dot}
    /\ attached = FALSE
    /\ volHasLink = FALSE
    /\ requiredSizeMB = 0
    /\ createSizeArg = 0
    /\ files0 = {}
    /\ dirs0 = {Dot}
    /\ prevArg = 0

SizeInit ==
    /\ AtRest
    /\ NoProcs
    /\ bundle \in AllBundles
    /\ pc = "measure"
    /\ appSize = 0
    /\ prevSize = -1

\* line 49 applied to the bundle
SizeMeasure ==
    /\ pc = "measure"
    /\ appSize' = getDirectorySize(bundle, 1)
    /\ pc' = "measured"
    /\ UNCHANGED <<fsVars, cmdVars, requiredSizeMB, createSizeArg, mountVars,
                   ctlVars, cliVars, trace, startVars, bundle, prevSize,
                   prevArg, concVars>>

\* entries i and i+1 of directory d exchanged
Swapped(b, d, i) ==
    [b EXCEPT ![d].entries =
        [@ EXCEPT ![i] = b[d].entries[i + 1], ![i + 1] = b[d].entries[i]]]

\* line 19: readdirSync lists the same directory in another order, and the
\* bundle is measured again
SizeRelist ==
    /\ pc = "measured"
    /\ prevSize = -1
    /\ \E d \in 1..MaxNodes :
       \E i \in 1..(Len(bundle[d].entries) - 1) :
          bundle' = Swapped(bundle, d, i)
    /\ prevSize' = appSize
    /\ pc' = "measure"
    /\ UNCHANGED <<fsVars, cmdVars, planVars, mountVars, ctlVars, cliVars,
                   trace, startVars, prevArg, concVars>>

SizeNext == SizeMeasure \/ SizeRelist

SizeSpec == SizeInit /\ [][SizeNext]_vars

\* ----------------------------------------------- planning, on its own

\* measured sizes around the megabyte boundaries
SizeSamples ==
    {k * MB + d : k \in {0, 1, 2, 799, 800, 1900}, d \in {-1, 0, 1}}
        \cap Nat

PlanInit ==
    /\ AtRest
    /\ NoProcs
    /\ bundle = NoBundle
    /\ pc = "plan"
    /\ appSize = 0
    /\ prevSize = -1

\* lines 49-50 for a measured size s
PlanCapacity(s) ==
    /\ pc = "plan"
    /\ appSize' = s
    /\ requiredSizeMB' = RequiredSizeMB(s)
    /\ IF createSizeArg # 0
       THEN prevSize' = appSize /\ prevArg' = createSizeArg
       ELSE UNCHANGED <<prevSize, prevArg>>
    /\ pc' = "stage"
    /\ UNCHANGED <<fsVars, cmdVars, createSizeArg, mountVars, ctlVars,
                   cliVars, trace, startVars, bundle, concVars>>

\* line 73: the capacity goes into the create command as "-size <n>m"
PlanCreate ==
    /\ pc = "stage"
    /\ createSizeArg' = requiredSizeMB
    /\ pc' = "plan"
    /\ UNCHANGED <<fsVars, cmdVars, appSize, requiredSizeMB, mountVars,
                   ctlVars, cliVars, trace, startVars, pureVars>>

PlanNext == (\E s \in SizeSamples : PlanCapacity(s)) \/ PlanCreate

PlanSpec == PlanInit /\ [][PlanNext]_vars

\* ------------------------------------------------------------- claims

\* the promise of createDMG has settled in the current run
Ended == pc \in {"done", "exited"} /\ result # "none"

Started(stage) == \E i \in DOMAIN trace : trace[i] = stage
Threw(stage) == \E i \in DOMAIN failed : failed[i] = stage

\* the place of a stage in the trace, 0 when it was not started
TraceIndex(stage) ==
    IF Started(stage) THEN CHOOSE i \in DOMAIN trace : trace[i] = stage ELSE 0

Tools == {"create", "attach", "ln", "detach", "convert"}

\* C1: a run that reached the create invocation has run the cleanup block
\* as its last stage when it ends, whichever stage failed or none; and unless
\* the removal itself failed, no file is at the staging path then.
C1_CleanupOnEveryExit ==
    (Ended /\ Started("create")) =>
        /\ Started("cleanup")
        /\ trace[Len(trace)] = "cleanup"
        /\ (~Threw("cleanup") => tempDmgPath \notin files)

\* a run in which convert failed with the staging image on disk, and the
\* image is gone when the run ends
C1_Witness ==
    /\ Ended
    /\ Threw("convert")
    /\ ~Threw("cleanup")
    /\ TraceIndex("unlinkTemp") = 0
    /\ tempDmgPath \notin files
    /\ result = "rejected"

\* C2 (as claimed): whenever attach succeeded in a run, detach was invoked
\* before the run ended.
C2_NoMountLeaked ==
    (Ended /\ Started("attach") /\ ~Threw("attach")) => Started("detach")

\* C3: when the decoration (ln -s) failed, detach is invoked after it and
\* before createDMG rejects, convert is never invoked, and createDMG rejects.
C3_DecorationFailureDetaches ==
    Threw("ln") =>
        /\ ~Started("convert")
        /\ Ended =>
            /\ TraceIndex("detach") > TraceIndex("ln")
            /\ result = "rejected"

\* ln -s failed, the volume was detached and the run has ended
C3_Witness ==
    /\ Ended
    /\ Threw("ln")
    /\ ~Threw("detach")
    /\ ~attached

\* C4: with no source bundle at appPath, createDMG rejects with the
\* not-found error, files and directories are what they were when it was
\* called, and no stage (tool or fs mutation) was started.
C4_MissingSourceNoSideEffects ==
    (Ended /\ ~SourceExists(args[1])) =>
        /\ result = "rejected"
        /\ err = "notfound"
        /\ files = files0
        /\ dirs = dirs0
        /\ trace = <<>>

\* the source is missing, stale files are at the staging path and at the
\* output path, and the run has ended
C4_Witness ==
    /\ Ended
    /\ ~SourceExists(args[1])
    /\ outputPath \in files
    /\ tempDmgPath \in files
    /\ tempDmgPath # outputPath

\* C5 (as claimed): when createDMG has succeeded, the final image is at the
\* output path and nothing is at the staging path, whatever the output path.
C5_SuccessLeavesOnlyFinal ==
    (Ended /\ result = "resolved") =>
        /\ outputPath \in files
        /\ tempDmgPath \notin files

\* C6 (as claimed): every run in which nothing fails (the first, the second
\* with the same arguments, one started from what a failed run left behind)
\* succeeds and leaves the final image and no staging image.
C6_RerunSucceeds ==
    (Ended /\ SourceExists(args[1]) /\ failed = <<>>) =>
        /\ result = "resolved"
        /\ outputPath \in files
        /\ tempDmgPath \notin files

\* C7: the n of "-size <n>m" is ceil(s / 1048576) + 50 for the measured
\* size s (n - 50 is the least number of megabytes that hold s bytes), n
\* megabytes hold s bytes, a size not smaller gets an n not smaller, and
\* 800 MB get 850.
C7_CapacityFormula ==
    (pc = "plan" /\ createSizeArg # 0) =>
        /\ (createSizeArg - 50) * MB >= appSize
        /\ (createSizeArg - 51) * MB < appSize
        /\ createSizeArg * MB >= appSize
        /\ (prevSize >= 0 /\ prevSize <= appSize) => prevArg <= createSizeArg
        /\ (prevSize >= appSize) => prevArg >= createSizeArg
        /\ (appSize = 800 * MB) => createSizeArg = 850

\* create was issued for 800 MB after it was issued for one byte less
C7_Witness ==
    /\ pc = "plan"
    /\ appSize = 800 * MB
    /\ prevSize = 800 * MB - 1
    /\ createSizeArg = 850
    /\ prevArg = 850

\* the nodes a path from directory d leads to
RECURSIVE ReachableFrom(_, _)
ReachableFrom(b, d) ==
    {d} \cup UNION {ReachableFrom(b, b[d].entries[i]) :
                       i \in DOMAIN b[d].entries}

RECURSIVE SumOfSizes(_, _)
SumOfSizes(b, S) ==
    IF S = {} THEN 0
    ELSE LET n == CHOOSE n \in S : TRUE
         IN  b[n].size + SumOfSizes(b, S \ {n})

\* the sizes of the regular files reachable from the root, each file once
RegularFileBytes(b) ==
    SumOfSizes(b, {n \in ReachableFrom(b, 1) : ~b[n].isDir})

\* C8 (as claimed): the measured size is the sum of the sizes of the
\* regular files reachable from the root, and it is the same when a
\* directory is listed in another order.
C8_SizeIsSumOfRegularFiles ==
    (pc = "measured") =>
        /\ appSize = RegularFileBytes(bundle)
        /\ (prevSize >= 0 => appSize = prevSize)

\* the error pending when the cleanup block is entered
Primary ==
    LET before == SelectSeq(failed, LAMBDA e : e # "cleanup")
    IN  IF before = <<>> THEN "none" ELSE before[Len(before)]

\* C9 (as claimed): the cleanup never changes the result: with no earlier
\* failure createDMG succeeds, and with an earlier failure E it rejects with
\* E, also when the removal of the staging image fails.
C9_CleanupNeverOverrides ==
    (Ended /\ Started("cleanup")) =>
        /\ (Primary = "none") => result = "resolved"
        /\ (Primary # "none") => (result = "rejected" /\ err = Primary)

\* C10: a failure of create, attach, ln, detach or convert makes createDMG
\* reject and the process exit with status 1, and after the failing stage
\* only detach and the cleanup are started; a run that succeeds has skipped
\* no stage but, at most, ln.
C10_NoFailureSwallowed ==
    /\ \A t \in Tools :
          Threw(t) =>
              /\ \A i \in DOMAIN trace :
                    i > TraceIndex(t) => trace[i] \in {"detach", "cleanup"}
              /\ Ended => result = "rejected"
              /\ pc = "exited" => exitCode = 1
    /\ (Ended /\ result = "resolved") =>
          /\ \A t \in Tools \ {"ln"} : Started(t)
          /\ ~Started("ln") => volHasLink

\* detach failed after everything before it succeeded, and the process has
\* exited
C10_Witness ==
    /\ pc = "exited"
    /\ failed = <<"detach">>
    /\ Started("ln")
    /\ exitCode = 1


\* C11: a process started with fewer than two arguments prints the usage
\* text and exits with status 1; createDMG is not called, so no stage is
\* started and files and directories are what they were.
C11_UsageOnMissingArgument ==
    (runs > 0 /\ Len(args) < 2) =>
        /\ pc = "exited"
        /\ usagePrinted
        /\ exitCode = 1
        /\ result = "none"
        /\ trace = <<>>
        /\ files = files0
        /\ dirs = dirs0

\* the second process was started with one argument, after a first one had
\* left files behind
C11_Witness ==
    /\ runs = 2
    /\ Len(args) = 1
    /\ pc = "exited"
    /\ usagePrinted
    /\ files # {}


\* path.basename: what follows the last "/"
Basename(p) == SubSeq(p, LastSlash(p) + 1, Len(p))

\* path.extname: from the last "." of the base name on, empty when there is
\* none or when the base name starts with it
Extname(p) ==
    LET b == Basename(p)
        dots == {i \in 2..Len(b) : b[i] = "."}
    IN  IF dots = {} THEN <<>>
        ELSE SubSeq(b, CHOOSE i \in dots : \A j \in dots : i >= j, Len(b))

\* the base name without its extension
Stem(p) == SubSeq(Basename(p), 1, Len(Basename(p)) - Len(Extname(p)))

\* C12 (as claimed): the staging path createDMG derives from its output
\* path lies in the same directory, is named by the same base name, a
\* suffix and the same extension, and differs from the output path.
C12_TempIsSibling ==
    (runs > 0 /\ Len(args) = 2) =>
        /\ Dirname(tempDmgPath) = Dirname(args[2])
        /\ Extname(tempDmgPath) = Extname(args[2])
        /\ Len(Stem(tempDmgPath)) > Len(Stem(args[2]))
        /\ SubSeq(Stem(tempDmgPath), 1, Len(Stem(args[2]))) = Stem(args[2])
        /\ tempDmgPath # args[2]


\* C13: ln -s is invoked only on a volume without an entry named
\* Applications; on a volume that has one the decoration step starts
\* nothing and changes nothing but the position, which moves on to detach;
\* and such a run, when nothing fails, goes through detach and convert and
\* succeeds like one that made the link.
C13_DecorationIdempotent ==
    /\ [][(pc = "decorate") =>
            /\ volHasLink =>
                  /\ pc' = "detach"
                  /\ UNCHANGED <<fsVars, trace, ctlVars, planVars, mountVars>>
            /\ ~volHasLink => (trace' = Append(trace, "ln"))]_vars
    /\ []((Ended /\ Started("detach") /\ ~Started("ln") /\ failed = <<>>) =>
            /\ volHasLink
            /\ Started("convert")
            /\ TraceIndex("convert") > TraceIndex("detach")
            /\ result = "resolved")

\* a run on a volume that already had the entry: ln was not started, detach
\* and convert were, and createDMG resolved
C13_Witness ==
    /\ Ended
    /\ Started("attach")
    /\ ~Started("ln")
    /\ Started("detach")
    /\ Started("convert")
    /\ volHasLink
    /\ result = "resolved"


\* C14: convert is started only with the staging image detached: create,
\* attach and detach were started before it, in that order, none of them
\* threw, and the image is not attached when convert is about to start; a
\* run in which detach threw never starts convert.
C14_ConvertOnlyWhenDetached ==
    /\ (pc = "convert") => ~attached
    /\ Started("convert") =>
          /\ 0 < TraceIndex("create")
          /\ TraceIndex("create") < TraceIndex("attach")
          /\ TraceIndex("attach") < TraceIndex("detach")
          /\ TraceIndex("detach") < TraceIndex("convert")
          /\ ~Threw("create")
          /\ ~Threw("attach")
          /\ ~Threw("detach")
    /\ Threw("detach") => ~Started("convert")

\* convert has been started after ln, detach and the stages before them
C14_Witness ==
    /\ Started("convert")
    /\ Started("ln")
    /\ ~attached
    /\ trace[Len(trace)] = "convert"


\* C15: when create is about to be invoked, no file is at the staging path
\* and none at the output path, whatever was there when createDMG was
\* called.
C15_PathsClearAtCreate ==
    (pc = "create") =>
        /\ tempDmgPath \notin files
        /\ outputPath \notin files

\* create is about to be invoked in a run that found a file at each path
C15_Witness ==
    /\ pc = "create"
    /\ tempDmgPath # outputPath
    /\ tempDmgPath \in files0
    /\ outputPath \in files0
    /\ trace = <<"unlinkTemp", "unlinkOut">>


\* attach succeeded in this run, its output holds no volume path, and the
\* parse of lines 82-85 is over
NoMountPath ==
    /\ Started("attach")
    /\ ~Threw("attach")
    /\ pc # "parse"
    /\ MountMatch(mountOutput) = <<>>

C17_StaleTempGoneAsClaimed ==
    (Ended /\ tempDmgPath \in files0) => tempDmgPath \notin files

\* the failures that end createDMG before it has removed anything
BeforeClearing == {"notfound", "measure", "mkdir"}

\* C17 (amended): a file that was at the staging path when createDMG was
\* called is not there when createDMG ends, on success and after a failure
\* of any stage from the removal of the stale output file on, unless a
\* removal of the staging image (the stale one, or the final cleanup)
\* itself threw; after a failure of the validation, of the measurement or
\* of the creation of the output directory it is still there.
C17_StaleTempGone ==
    (Ended /\ tempDmgPath \in files0) =>
        /\ (\A e \in BeforeClearing \cup {"unlinkTemp", "cleanup"} :
                ~Threw(e)) => tempDmgPath \notin files
        /\ (\E e \in BeforeClearing : Threw(e)) => tempDmgPath \in files

\* a run that found a stale staging image and a stale output file, could
\* not remove the output file, and ended with the staging image gone
C17_Witness ==
    /\ Ended
    /\ tempDmgPath \in files0
    /\ failed = <<"unlinkOut">>
    /\ tempDmgPath \notin files


\* the stages after the clearing of stale artifacts
AfterClearing ==
    {"create", "attach", "parse", "decorate", "detach", "convert", "stat",
     "cleanup"}

\* C18 (as claimed): once the stale artifacts are cleared, no step of
\* createDMG removes a file at the output path, so what convert left there
\* when it failed is there when createDMG ends; and a failed convert makes
\* createDMG reject.
C18_OutputNeverRemoved ==
    /\ [][(pc \in AfterClearing /\ outputPath \in files) =>
              outputPath \in files']_vars
    /\ []((Ended /\ Threw("convert")) => result = "rejected")


\* C20: when the measurement of an existing source throws, createDMG
\* rejects with that error, no stage (mkdir, unlink, tool) was started, and
\* files and directories are what they were when it was called.
C20_MeasureFailureNoSideEffects ==
    (Ended /\ Threw("measure")) =>
        /\ SourceExists(args[1])
        /\ result = "rejected"
        /\ err = "measure"
        /\ trace = <<>>
        /\ files = files0
        /\ dirs = dirs0

\* the measurement threw in a run that found stale files at both paths,
\* and they are still there
C20_Witness ==
    /\ Ended
    /\ failed = <<"measure">>
    /\ tempDmgPath # outputPath
    /\ tempDmgPath \in files
    /\ outputPath \in files


\* --------------------------------------- two processes, one output path

(* Two processes run createDMG for the same source and the same output     *)
(* path.  Each stage is one step of one process; the steps of the two      *)
(* interleave freely, as nothing in the code coordinates them.  The tools  *)
(* and fs calls do not fail on their own: a call fails only when what it   *)
(* needs is not there (attach and convert need the staging image, statSync *)
(* needs the final image) or, for create and convert, when a file the      *)
(* other process wrote occupies the path it is to write, in which case it  *)
(* fails or overwrites.                                                    *)

Other(p) == 3 - p

InFlight(p) == procs[p].pc \notin {"idle", "done"}

OwnerOf(f) == IF f \in DOMAIN owner THEN owner[f] ELSE 0

\* process p moves to state r; written and removed are the paths at which
\* its step wrote or unlinked a file, which the other process, if it is
\* running, is thereby subject to
ProcStep(p, r, written, removed) ==
    procs' =
        [q \in Procs |->
            IF q = p THEN r
            ELSE [procs[q] EXCEPT
                    !.hit = @ \/ (InFlight(q) /\ written \cup removed # {}),
                    !.lost = @ \/ (InFlight(q) /\
                                   \E f \in removed : OwnerOf(f) = q)]]

\* lines 69-119: an exception in the outer try, outside the inner one
ProcThrowOuter(r, e) == [r EXCEPT !.pc = "cleanup", !.pending = e]

\* what no step of ConcSpec changes
ConcFrame ==
    UNCHANGED <<dirs, attached, cmdVars, pc, planVars, mountVars, ctlVars,
                cliVars, trace, startVars, bundle, prevSize, prevArg>>

ConcInit ==
    /\ AtRest
    /\ NoProcs
    /\ bundle = NoBundle
    /\ pc = "idle"
    /\ appSize = 0
    /\ prevSize = -1

\* lines 37-59: the process starts; the source exists, it is measured, and
\* the output directory exists
ConcStart(p) ==
    /\ procs[p].pc = "idle"
    /\ SourceExists(appPath)
    /\ outputDir \in dirs
    /\ ProcStep(p, [procs[p] EXCEPT !.pc = "clearTemp"], {}, {})
    /\ UNCHANGED <<files, volHasLink, owner>>
    /\ ConcFrame

\* lines 62-64
ConcClearTemp(p) ==
    /\ procs[p].pc = "clearTemp"
    /\ LET gone == {tempDmgPath} \cap files
       IN  /\ files' = files \ gone
           /\ ProcStep(p, [procs[p] EXCEPT !.pc = "clearOut"], {}, gone)
    /\ UNCHANGED <<volHasLink, owner>>
    /\ ConcFrame

\* lines 65-67
ConcClearOut(p) ==
    /\ procs[p].pc = "clearOut"
    /\ LET gone == {outputPath} \cap files
       IN  /\ files' = files \ gone
           /\ ProcStep(p, [procs[p] EXCEPT !.pc = "create"], {}, gone)
    /\ UNCHANGED <<volHasLink, owner>>
    /\ ConcFrame

\* lines 70-75: a fresh image, without an Applications entry, is written at
\* the staging path
ConcCreate(p) ==
    /\ procs[p].pc = "create"
    /\ \/ /\ files' = files \cup {tempDmgPath}
          /\ owner' = (tempDmgPath :> p) @@ owner
          /\ volHasLink' = FALSE
          /\ ProcStep(p, [procs[p] EXCEPT !.pc = "attach"],
                      {tempDmgPath}, {})
       \/ /\ tempDmgPath \in files
          /\ ProcStep(p, ProcThrowOuter(procs[p], "create"), {}, {})
          /\ UNCHANGED <<files, owner, volHasLink>>
    /\ ConcFrame

\* lines 77-87: the image at the staging path is attached; the output
\* names the mount point
ConcAttach(p) ==
    /\ procs[p].pc = "attach"
    /\ IF tempDmgPath \in files
       THEN ProcStep(p, [procs[p] EXCEPT !.pc = "decorate",
                                         !.attached = TRUE], {}, {})
       ELSE ProcStep(p, ProcThrowOuter(procs[p], "attach"), {}, {})
    /\ UNCHANGED <<files, volHasLink, owner>>
    /\ ConcFrame

\* lines 89-95
ConcDecorate(p) ==
    /\ procs[p].pc = "decorate"
    /\ volHasLink' = TRUE
    /\ ProcStep(p, [procs[p] EXCEPT !.pc = "detach"], {}, {})
    /\ UNCHANGED <<files, owner>>
    /\ ConcFrame

\* lines 96-100
ConcDetach(p) ==
    /\ procs[p].pc = "detach"
    /\ ProcStep(p, [procs[p] EXCEPT !.pc = "convert", !.attached = FALSE],
                {}, {})
    /\ UNCHANGED <<files, volHasLink, owner>>
    /\ ConcFrame

\* lines 102-107
ConcConvert(p) ==
    /\ procs[p].pc = "convert"
    /\ \/ /\ tempDmgPath \in files
          /\ files' = files \cup {outputPath}
          /\ owner' = (outputPath :> p) @@ owner
          /\ ProcStep(p, [procs[p] EXCEPT !.pc = "stat"], {outputPath}, {})
       \/ /\ tempDmgPath \notin files \/ outputPath \in files
          /\ ProcStep(p, ProcThrowOuter(procs[p], "convert"), {}, {})
          /\ UNCHANGED <<files, owner>>
    /\ UNCHANGED volHasLink
    /\ ConcFrame

\* lines 109-113
ConcReport(p) ==
    /\ procs[p].pc = "stat"
    /\ IF outputPath \in files
       THEN ProcStep(p, [procs[p] EXCEPT !.pc = "cleanup"], {}, {})
       ELSE ProcStep(p, ProcThrowOuter(procs[p], "stat"), {}, {})
    /\ UNCHANGED <<files, volHasLink, owner>>
    /\ ConcFrame

\* lines 114-120: the staging image is removed and the promise settles
ConcCleanup(p) ==
    /\ procs[p].pc = "cleanup"
    /\ LET gone == {tempDmgPath} \cap files
       IN  /\ files' = files \ gone
           /\ ProcStep(p,
                 [procs[p] EXCEPT
                    !.pc = "done",
                    !.pending = "none",
                    !.result = IF procs[p].pending = "none"
                               THEN "resolved" ELSE "rejected",
                    !.err = procs[p].pending,
                    !.artifact = outputPath \in files'],
                 {}, gone)
    /\ UNCHANGED <<volHasLink, owner>>
    /\ ConcFrame

ConcNext ==
    \E p \in Procs :
        \/ ConcStart(p)
        \/ ConcClearTemp(p)
        \/ ConcClearOut(p)
        \/ ConcCreate(p)
        \/ ConcAttach(p)
        \/ ConcDecorate(p)
        \/ ConcDetach(p)
        \/ ConcConvert(p)
        \/ ConcReport(p)
        \/ ConcCleanup(p)

ConcSpec == ConcInit /\ [][ConcNext]_vars

\* C19: two processes with the same output path are not isolated.  A
\* process ends rejected, or without the final image at the output path,
\* only if the other process wrote or removed a file at the staging or the
\* output path while it ran (alone, it succeeds); and there is an
\* interleaving, the witness, in which that happens.
C19_FailureOnlyByInterference ==
    \A p \in Procs :
        (procs[p].pc = "done"
            /\ (procs[p].result = "rejected" \/ ~procs[p].artifact))
        => procs[p].hit

\* a process whose staging image was removed by the other process while it
\* ran, and which ended rejected with nothing of its own at the output path
C19_Witness ==
    \E p \in Procs :
        /\ procs[p].pc = "done"
        /\ procs[p].lost
        /\ procs[p].result = "rejected"
        /\ procs[p].err \in {"attach", "convert"}
        /\ OwnerOf(outputPath) # p

====
